---- MODULE Spec2Model ----
(***************************************************************************)
(* The Kopia backup service of incus-osd                                   *)
(* (incus-osd/internal/services/service_kopia.go): the Update handler with *)
(* its restore trigger, PerformRestore, performBackup and the periodic     *)
(* scheduler that calls it.  The Update handler and the scheduler run in   *)
(* different goroutines over the same n.state.Services.Kopia record and    *)
(* take no lock, so their steps interleave; a step is the code between two *)
(* blocking external calls (zfs, kopia, rsync, the unit registry).         *)
(***************************************************************************)
EXTENDS Integers, Sequences, FiniteSets, TLC

(* ------------------------------ bounds --------------------------------- *)

\* The clock runs over 1..MaxTime (0 is the zero time.Time: "never"); one
\* unit of the clock is one scheduling period.
MaxTime == 2

\* The duration D of a non-empty backup_frequency, in clock units.
BackupInterval == 1

(* ------------------------------ values --------------------------------- *)

\* error values are chains of messages, as built by fmt.Errorf("...: %w", err);
\* nil is the empty chain
Nil == <<>>

Wrap(msg, err) == <<msg>> \o err

\* the error of a failed external command (subprocess.RunCommandContext)
ExitError == <<"exit status 1">>

\* a LastStatus string: a fixed message, followed by err.Error() when the
\* code appends one
Status(msg, err) == [msg |-> msg, err |-> err]

NoS3 ==
    [Present |-> FALSE, Endpoint |-> "", Bucket |-> "", AccessKey |-> "",
     SecretKey |-> "", Region |-> ""]

S3Complete ==
    [Present |-> TRUE, Endpoint |-> "s3.example", Bucket |-> "backups",
     AccessKey |-> "ak", SecretKey |-> "sk", Region |-> ""]

S3NoBucket == [S3Complete EXCEPT !.Bucket = ""]

NoRetention ==
    [KeepLatest |-> 0, KeepHourly |-> 0, KeepDaily |-> 0, KeepWeekly |-> 0,
     KeepMonthly |-> 0, KeepAnnual |-> 0]

\* api.ServiceKopiaConfig; BackupFrequency 0 is the empty string
ServiceKopiaConfig(enabled, password, backend, retention, frequency, restoreID) ==
    [Enabled |-> enabled, RepositoryPassword |-> password, Backend |-> backend,
     Retention |-> retention, BackupFrequency |-> frequency,
     RestoreSnapshotID |-> restoreID]

\* the zero value: the configuration of a freshly constructed state
CfgZero ==
    ServiceKopiaConfig(FALSE, "", [Type |-> "", S3 |-> NoS3], NoRetention, 0, "")

\* enabled, default schedule, keep_daily: 7
CfgDefault ==
    ServiceKopiaConfig(TRUE, "pw", [Type |-> "s3", S3 |-> S3Complete],
                       [NoRetention EXCEPT !.KeepDaily = 7], 0, "")

\* enabled, backup_frequency = D, no retention
CfgInterval ==
    ServiceKopiaConfig(TRUE, "pw", [Type |-> "s3", S3 |-> S3Complete],
                       NoRetention, BackupInterval, "")

\* enabled with an incomplete S3 block
CfgBadBackend ==
    ServiceKopiaConfig(TRUE, "pw", [Type |-> "s3", S3 |-> S3NoBucket],
                       NoRetention, 0, "")

\* the request bodies an Update is called with
Requests ==
    {CfgZero, CfgDefault, CfgInterval, CfgBadBackend}
    \cup {[c EXCEPT !.RestoreSnapshotID = "k123"] : c \in {CfgZero, CfgDefault}}

\* api.ServiceKopiaState
ServiceKopiaState ==
    [RepositoryConnected |-> FALSE, LastBackup |-> 0, LastBackupWindow |-> 0,
     LastStatus |-> Status("", Nil), InProgress |-> FALSE, Progress |-> 0,
     AvailableSnapshots |-> <<>>]

\* n.state.Applications and Supported(n.state), the services in startup order
Applications == {"app1"}

Supported == <<"svc1", "kopia", "svc2">>

VARIABLES
    Config,       \* n.state.Services.Kopia.Config
    State,        \* n.state.Services.Kopia.State
    saved,        \* the configuration last written by n.state.Save()
    windows,      \* n.state.System.Update.Config.MaintenanceWindows configured?
    now,          \* the clock
    upd_pc,       \* where the Update handler (and the restore it runs) stands
    upd_req,      \* newState.Config
    upd_old,      \* oldState.Config
    rs_apps,      \* applications the current loop of PerformRestore has not visited
    rs_idx,       \* services the current loop of PerformRestore has visited
    rs_err,       \* the error PerformRestore is returning while its defer runs
    rs_ops,       \* external operations issued by the running PerformRestore
    rs_safety,    \* the safety snapshot of the running PerformRestore was created
    bk_pc,        \* where the scheduler (and the performBackup it runs) stands
    bk_done,      \* the windows the scheduler has booked a successful cycle on
    bk_last,      \* the time the last cycle of performBackup completed, 0 if none has
    bk_snapshot,  \* snapshotName of the running performBackup
    bk_err,       \* the err variable of performBackup, read by its defer
    bk_ret,       \* the value performBackup is returning while its defer runs
    bk_ops,       \* external operations issued by the running performBackup
    returned,     \* what the step just taken returned to its caller, if it was a return
    call          \* the function last called on its own, with its input and result

vars ==
    <<Config, State, saved, windows, now, upd_pc, upd_req, upd_old,
      rs_apps, rs_idx, rs_err, rs_ops, rs_safety,
      bk_pc, bk_done, bk_last, bk_snapshot, bk_err, bk_ret, bk_ops, returned, call>>

updVars == <<upd_pc, upd_req, upd_old, rs_apps, rs_idx, rs_err, rs_ops, rs_safety>>

bkVars == <<bk_pc, bk_done, bk_last, bk_snapshot, bk_err, bk_ret, bk_ops>>

\* a return of the function by with the error err; for Update, id is the
\* restore_snapshot_id of the request it was called with and restore tells
\* what the PerformRestore it called returned: "" (not called), "error", "nil"
Return(by, err, id, restore) == [by |-> by, err |-> err, id |-> id, restore |-> restore]

\* the step just taken was no return
NoReturn == Return("", Nil, "", "")

\* a call of the function fn on its own: what it was given and what it gave
Call(fn, in, out) == [fn |-> fn, in |-> in, out |-> out]

\* no function has been called on its own
NoCall == Call("", <<>>, <<>>)

Init ==
    /\ Config = CfgZero
    /\ State = ServiceKopiaState
    /\ saved = CfgZero
    /\ windows \in BOOLEAN
    /\ now = 1
    /\ upd_pc = "idle"
    /\ upd_req = CfgZero
    /\ upd_old = CfgZero
    /\ rs_apps = {}
    /\ rs_idx = 0
    /\ rs_err = Nil
    /\ rs_ops = <<>>
    /\ rs_safety = FALSE
    /\ bk_pc = "idle"
    /\ bk_done = {}
    /\ bk_last = 0
    /\ bk_snapshot = <<>>
    /\ bk_err = Nil
    /\ bk_ret = Nil
    /\ bk_ops = <<>>
    /\ returned = NoReturn
    /\ call = NoCall

(* ------------------------------ the clock ------------------------------ *)

AdvanceTime ==
    /\ now < MaxTime
    /\ now' = now + 1
    /\ returned' = NoReturn
    /\ UNCHANGED <<Config, State, saved, windows, call, updVars, bkVars>>

\* MaintenanceWindow.IsCurrentlyActive of the configured window: it is open
\* every other period, from the first one on
IsCurrentlyActive == now % 2 = 1

\* the identifier of the current window: each period has its own
CurrentWindowID == now

\* the loop of isInMaintenanceWindow over the windows from the i-th on;
\* ws[i] is what IsCurrentlyActive of the i-th window answers
RECURSIVE AnyWindowActive(_, _)
AnyWindowActive(ws, i) ==
    IF i > Len(ws) THEN FALSE
    ELSE IF ws[i] THEN TRUE
    ELSE AnyWindowActive(ws, i + 1)

\* the check that looks at the first window only
isInMaintenanceWindowOf_FirstOnly(ws) ==
    IF Len(ws) = 0 THEN TRUE ELSE ws[1]

\* isInMaintenanceWindow on the configured windows ws
isInMaintenanceWindowOf(ws) ==
    IF Len(ws) = 0 THEN TRUE ELSE AnyWindowActive(ws, 1)

\* updateConfig.MaintenanceWindows, each window as what its IsCurrentlyActive
\* answers now
MaintenanceWindows == IF windows THEN <<IsCurrentlyActive>> ELSE <<>>

isInMaintenanceWindow == isInMaintenanceWindowOf(MaintenanceWindows)

(* ------------------------- external operations ------------------------- *)

\* one external operation: the tool, what it is asked to do, and its target
Op(tool, verb, target) == [tool |-> tool, verb |-> verb, target |-> target]

\* time.Now().Format("20060102-150405"): the timestamp of a snapshot name;
\* at most one cycle of each kind names a snapshot at a time, so the names of
\* a cycle are told apart by their prefixes
Timestamp == "20060102-150405"

\* the name createZFSSnapshot gives the snapshot of poolName
SnapshotName(poolName) == poolName \o <<"@kopia-", Timestamp>>

\* findLocalPool: the pool is always "local"
LocalPool == <<"local">>

\* the flags with every count that is not negative
RetentionArgs_NonNegative(r) ==
    (IF r.KeepLatest >= 0 THEN <<<<"--keep-latest", r.KeepLatest>>>> ELSE <<>>)
    \o (IF r.KeepHourly >= 0 THEN <<<<"--keep-hourly", r.KeepHourly>>>> ELSE <<>>)
    \o (IF r.KeepDaily >= 0 THEN <<<<"--keep-daily", r.KeepDaily>>>> ELSE <<>>)
    \o (IF r.KeepWeekly >= 0 THEN <<<<"--keep-weekly", r.KeepWeekly>>>> ELSE <<>>)
    \o (IF r.KeepMonthly >= 0 THEN <<<<"--keep-monthly", r.KeepMonthly>>>> ELSE <<>>)
    \o (IF r.KeepAnnual >= 0 THEN <<<<"--keep-annual", r.KeepAnnual>>>> ELSE <<>>)

\* the flags applyRetention passes to "kopia snapshot expire", each with its
\* count
RetentionArgs(r) ==
    (IF r.KeepLatest > 0 THEN <<<<"--keep-latest", r.KeepLatest>>>> ELSE <<>>)
    \o (IF r.KeepHourly > 0 THEN <<<<"--keep-hourly", r.KeepHourly>>>> ELSE <<>>)
    \o (IF r.KeepDaily > 0 THEN <<<<"--keep-daily", r.KeepDaily>>>> ELSE <<>>)
    \o (IF r.KeepWeekly > 0 THEN <<<<"--keep-weekly", r.KeepWeekly>>>> ELSE <<>>)
    \o (IF r.KeepMonthly > 0 THEN <<<<"--keep-monthly", r.KeepMonthly>>>> ELSE <<>>)
    \o (IF r.KeepAnnual > 0 THEN <<<<"--keep-annual", r.KeepAnnual>>>> ELSE <<>>)

\* applyRetention on the policy r, when the expire command ends as ok: the
\* commands it issues and the error it returns
applyRetention(r, ok) ==
    IF RetentionArgs(r) = <<>>
    THEN [ops |-> <<>>, err |-> Nil]
    ELSE [ops |-> <<Op("kopia", "snapshot expire", RetentionArgs(r))>>,
          err |-> IF ok THEN Nil ELSE Wrap("failed to apply retention policy", ExitError)]

(* ------------------------------ scheduler ------------------------------ *)

\* The decision of the periodic tick.
ShouldBackup ==
    /\ isInMaintenanceWindow
    /\ IF Config.BackupFrequency = 0
       THEN State.LastBackup = 0 \/ State.LastBackupWindow # CurrentWindowID
       ELSE State.LastBackup = 0 \/ now - State.LastBackup >= Config.BackupFrequency

\* A tick of the scheduler that decides to run a backup; any other tick
\* changes nothing.
SchedulerTick ==
    /\ bk_pc = "idle"
    /\ Config.Enabled
    /\ ~State.InProgress
    /\ ShouldBackup
    /\ bk_pc' = "call"
    /\ returned' = NoReturn
    /\ UNCHANGED <<Config, State, saved, windows, call, now, updVars,
                   bk_done, bk_last, bk_snapshot, bk_err, bk_ret, bk_ops>>

\* The time the last cycle completed, after the step taken: the step that
\* follows the cleanup of the snapshot is the one that marks the cycle complete.
Completed == IF bk_pc = "destroy" THEN now ELSE bk_last

\* Whether a cycle that returned err is booked on the current window: a
\* successful one is, under the default schedule.
SchedulerBooks(err) == err = Nil /\ Config.BackupFrequency = 0

\* What the scheduler records when performBackup has returned err.
SchedulerRecord(st, err) ==
    IF SchedulerBooks(err)
    THEN [st EXCEPT !.LastBackupWindow = CurrentWindowID]
    ELSE st

\* performBackup returns err to the scheduler, leaving the state st
BackupReturn(st, err) ==
    /\ State' = SchedulerRecord(st, err)
    /\ bk_pc' = "idle"
    /\ bk_done' = IF SchedulerBooks(err) THEN bk_done \cup {CurrentWindowID} ELSE bk_done
    /\ bk_last' = Completed
    /\ returned' = Return("performBackup", err, "", "")
    /\ bk_ops' = <<>>
    /\ bk_snapshot' = <<>>
    /\ bk_err' = Nil
    /\ bk_ret' = Nil
    /\ UNCHANGED <<Config, saved, windows, call, now, updVars>>

\* performBackup goes on to its next blocking call
BackupStep(st, pc, op) ==
    /\ State' = st
    /\ bk_pc' = pc
    /\ bk_ops' = Append(bk_ops, op)
    /\ bk_last' = Completed
    /\ returned' = NoReturn
    /\ UNCHANGED <<Config, saved, windows, call, now, updVars, bk_done>>

(* ----------------------------- performBackup --------------------------- *)

\* the preconditions without the second look at the maintenance window
performBackupEntry_NoWindowCheck ==
    /\ bk_pc = "call"
    /\ IF ~State.RepositoryConnected
       THEN BackupReturn(State, <<"repository not connected">>)
       ELSE /\ BackupStep(State, "find_pool", Op("zpool", "exists", LocalPool))
            /\ UNCHANGED <<bk_snapshot, bk_err, bk_ret>>

\* the preconditions, up to the call of storage.PoolExists
performBackupEntry ==
    /\ bk_pc = "call"
    /\ IF ~State.RepositoryConnected
       THEN BackupReturn(State, <<"repository not connected">>)
       ELSE IF ~isInMaintenanceWindow
       THEN BackupReturn(
                [State EXCEPT !.LastStatus = Status("Outside maintenance window", Nil)],
                <<"outside maintenance window">>)
       ELSE /\ BackupStep(State, "find_pool", Op("zpool", "exists", LocalPool))
            /\ UNCHANGED <<bk_snapshot, bk_err, bk_ret>>

\* findLocalPool has answered; on success the cycle starts and the snapshot
\* is asked for
BackupFindPool(found) ==
    /\ bk_pc = "find_pool"
    /\ IF ~found
       THEN BackupReturn(
                [State EXCEPT !.LastStatus =
                    Status("Failed to find local pool: ", <<"local ZFS pool not found">>)],
                <<"local ZFS pool not found">>)
       ELSE /\ BackupStep(
                   [State EXCEPT !.InProgress = TRUE, !.Progress = 0,
                                 !.LastStatus = Status("Creating ZFS snapshot", Nil)],
                   "zfs_snapshot",
                   Op("zfs", "snapshot", SnapshotName(LocalPool)))
            /\ bk_snapshot' = SnapshotName(LocalPool)
            /\ UNCHANGED <<bk_err, bk_ret>>

\* performBackup returning without a deferred cleanup
BackupDefer_Skipped(st, err, ret) == BackupReturn(st, ret)

\* the deferred cleanup of performBackup, run when it returns ret with the
\* state st: the snapshot is destroyed when the err variable is not nil
BackupDefer(st, err, ret) ==
    IF err # Nil
    THEN /\ BackupStep(st, "defer_destroy", Op("zfs", "destroy", bk_snapshot))
         /\ bk_err' = err
         /\ bk_ret' = ret
         /\ UNCHANGED bk_snapshot
    ELSE BackupReturn(st, ret)

\* the failed creation of the snapshot leaving InProgress set
BackupCreateSnapshot_StillInProgress(ok) ==
    /\ bk_pc = "zfs_snapshot"
    /\ IF ~ok
       THEN LET err == Wrap("failed to create ZFS snapshot", ExitError)
            IN  BackupReturn(
                    [State EXCEPT !.LastStatus = Status("Failed to create snapshot: ", err)],
                    err)
       ELSE /\ BackupStep(State, "snapshot_path", Op("zfs", "get mountpoint", LocalPool))
            /\ UNCHANGED <<bk_snapshot, bk_err, bk_ret>>

\* "zfs snapshot" has returned
BackupCreateSnapshot(ok) ==
    /\ bk_pc = "zfs_snapshot"
    /\ IF ~ok
       THEN LET err == Wrap("failed to create ZFS snapshot", ExitError)
            IN  BackupReturn(
                    [State EXCEPT !.InProgress = FALSE,
                                  !.LastStatus = Status("Failed to create snapshot: ", err)],
                    err)
       ELSE /\ BackupStep(State, "snapshot_path", Op("zfs", "get mountpoint", LocalPool))
            /\ UNCHANGED <<bk_snapshot, bk_err, bk_ret>>

\* getSnapshotPath has returned
BackupSnapshotPath(ok) ==
    /\ bk_pc = "snapshot_path"
    /\ IF ~ok
       THEN LET err == Wrap("snapshot path does not exist", ExitError)
            IN  BackupDefer(
                    [State EXCEPT !.InProgress = FALSE,
                                  !.LastStatus = Status("Failed to get snapshot path: ", err)],
                    err, err)
       ELSE /\ BackupStep(
                   [State EXCEPT !.Progress = 25,
                                 !.LastStatus = Status("Creating Kopia snapshot", Nil)],
                   "kopia_create",
                   Op("kopia", "snapshot create", bk_snapshot))
            /\ UNCHANGED <<bk_snapshot, bk_err, bk_ret>>

\* performBackup from the retention step on, with the retention's outcome:
\* the transient snapshot is destroyed
BackupCleanup ==
    /\ BackupStep(
           [State EXCEPT !.Progress = 90,
                         !.LastStatus = Status("Cleaning up ZFS snapshot", Nil)],
           "destroy",
           Op("zfs", "destroy", bk_snapshot))
    /\ UNCHANGED <<bk_snapshot, bk_err, bk_ret>>

\* "kopia snapshot create" has returned; applyRetention issues "kopia
\* snapshot expire" unless no count is positive
BackupKopiaCreate(ok) ==
    /\ bk_pc = "kopia_create"
    /\ IF ~ok
       THEN BackupDefer(
                [State EXCEPT !.InProgress = FALSE,
                              !.LastStatus = Status("Failed to create Kopia snapshot: ", ExitError)],
                ExitError, ExitError)
       ELSE IF RetentionArgs(Config.Retention) = <<>>
       THEN BackupCleanup
       ELSE /\ BackupStep(
                   [State EXCEPT !.Progress = 75,
                                 !.LastStatus = Status("Applying retention policies", Nil)],
                   "retention",
                   Op("kopia", "snapshot expire", RetentionArgs(Config.Retention)))
            /\ UNCHANGED <<bk_snapshot, bk_err, bk_ret>>

\* the retention step failing the cycle when "kopia snapshot expire" fails
BackupRetention_Failing(ok) ==
    /\ bk_pc = "retention"
    /\ IF ~ok
       THEN LET err == Wrap("failed to apply retention policy", ExitError)
            IN  BackupDefer(
                    [State EXCEPT !.InProgress = FALSE,
                                  !.LastStatus = Status("Failed to apply retention: ", err)],
                    err, err)
       ELSE BackupCleanup

\* "kopia snapshot expire" has returned; a failure is only logged
BackupRetention(ok) ==
    /\ bk_pc = "retention"
    /\ BackupCleanup

\* the completion that leaves InProgress set
BackupDestroy_StillInProgress(ok) ==
    /\ bk_pc = "destroy"
    /\ BackupDefer(
           [State EXCEPT !.Progress = 100, !.LastBackup = now,
                         !.LastStatus = Status("Backup completed successfully", Nil)],
           IF ok THEN Nil ELSE Wrap("failed to destroy ZFS snapshot", ExitError),
           Nil)

\* the completion that leaves LastBackup as it was
BackupDestroy_NoLastBackup(ok) ==
    /\ bk_pc = "destroy"
    /\ BackupDefer(
           [State EXCEPT !.InProgress = FALSE, !.Progress = 100,
                         !.LastStatus = Status("Backup completed successfully", Nil)],
           IF ok THEN Nil ELSE Wrap("failed to destroy ZFS snapshot", ExitError),
           Nil)

\* "zfs destroy" has returned; a failure is only logged, but it is left in
\* err, which the deferred cleanup reads
BackupDestroy(ok) ==
    /\ bk_pc = "destroy"
    /\ BackupDefer(
           [State EXCEPT !.InProgress = FALSE, !.Progress = 100, !.LastBackup = now,
                         !.LastStatus = Status("Backup completed successfully", Nil)],
           IF ok THEN Nil ELSE Wrap("failed to destroy ZFS snapshot", ExitError),
           Nil)

\* the deferred "zfs destroy" has returned; its result is dropped
BackupDeferredDestroy ==
    /\ bk_pc = "defer_destroy"
    /\ BackupReturn(State, bk_ret)

Backup ==
    \/ SchedulerTick
    \/ performBackupEntry
    \/ \E ok \in BOOLEAN :
        \/ BackupFindPool(ok)
        \/ BackupCreateSnapshot(ok)
        \/ BackupSnapshotPath(ok)
        \/ BackupKopiaCreate(ok)
        \/ BackupRetention(ok)
        \/ BackupDestroy(ok)
    \/ BackupDeferredDestroy

(* ------------------------------ configure ------------------------------ *)

\* the validation that does not look at the bucket
validateBackendConfig_NoBucket(backend) ==
    IF backend.Type = "s3"
    THEN IF ~backend.S3.Present
         THEN <<"S3 backend configuration missing">>
         ELSE IF \/ backend.S3.Endpoint = ""
                 \/ backend.S3.AccessKey = ""
                 \/ backend.S3.SecretKey = ""
         THEN <<"S3 configuration incomplete">>
         ELSE Nil
    ELSE <<"unsupported backend type: ", backend.Type>>

validateBackendConfig(backend) ==
    IF backend.Type = "s3"
    THEN IF ~backend.S3.Present
         THEN <<"S3 backend configuration missing">>
         ELSE IF \/ backend.S3.Endpoint = ""
                 \/ backend.S3.Bucket = ""
                 \/ backend.S3.AccessKey = ""
                 \/ backend.S3.SecretKey = ""
         THEN <<"S3 configuration incomplete">>
         ELSE Nil
    ELSE <<"unsupported backend type: ", backend.Type>>

\* the repository created whatever the connect attempt came to
connectOrInitRepository_CreateAlways(cfg, connectOk, createOk) ==
    IF cfg.RepositoryPassword = ""
    THEN [ops |-> <<>>,
          err |-> <<"repository_password is required for repository initialization">>]
    ELSE [ops |-> <<Op("kopia", "repository connect", <<cfg.Backend.S3.Bucket>>),
                    Op("kopia", "repository create", <<cfg.Backend.S3.Bucket>>)>>,
          err |-> IF connectOk \/ createOk THEN Nil
                  ELSE Wrap("failed to create repository", ExitError)]

\* connectOrInitRepository: the commands it issues and the error it returns,
\* when "kopia repository connect" and "create" end as connectOk and createOk
connectOrInitRepository(cfg, connectOk, createOk) ==
    IF cfg.RepositoryPassword = ""
    THEN [ops |-> <<>>,
          err |-> <<"repository_password is required for repository initialization">>]
    ELSE IF connectOk
    THEN [ops |-> <<Op("kopia", "repository connect", <<cfg.Backend.S3.Bucket>>)>>,
          err |-> Nil]
    ELSE [ops |-> <<Op("kopia", "repository connect", <<cfg.Backend.S3.Bucket>>),
                    Op("kopia", "repository create", <<cfg.Backend.S3.Bucket>>)>>,
          err |-> IF createOk THEN Nil ELSE Wrap("failed to create repository", ExitError)]

\* configure on the configuration cfg and the state st: the state it leaves,
\* the error it returns and the repository commands it issued
configure(cfg, st, datasetOk, connectOk, createOk) ==
    LET invalid == validateBackendConfig(cfg.Backend)
        repo == connectOrInitRepository(cfg, connectOk, createOk)
    IN  IF invalid # Nil
        THEN [st |-> [st EXCEPT !.RepositoryConnected = FALSE,
                                !.LastStatus = Status("Backend configuration invalid: ", invalid)],
              err |-> invalid, ops |-> <<>>]
        ELSE IF ~datasetOk
        THEN [st |-> st,
              err |-> Wrap("failed to ensure Kopia cache dataset",
                           Wrap("failed to create Kopia cache dataset", ExitError)),
              ops |-> <<>>]
        ELSE IF repo.err # Nil
        THEN [st |-> [st EXCEPT !.RepositoryConnected = FALSE,
                                !.LastStatus =
                                    Status("Failed to connect or initialize repository: ", repo.err)],
              err |-> repo.err, ops |-> repo.ops]
        ELSE [st |-> [st EXCEPT !.RepositoryConnected = TRUE,
                                !.LastStatus = Status("Repository connected", Nil)],
              err |-> Nil, ops |-> repo.ops]

\* the outcomes of the external commands of one configure call: the cache
\* dataset cannot be made; the repository is connected to; it is not there
\* and is created; neither works
Outcomes ==
    {[datasetOk |-> FALSE, connectOk |-> FALSE, createOk |-> FALSE],
     [datasetOk |-> TRUE, connectOk |-> TRUE, createOk |-> FALSE],
     [datasetOk |-> TRUE, connectOk |-> FALSE, createOk |-> TRUE],
     [datasetOk |-> TRUE, connectOk |-> FALSE, createOk |-> FALSE]}

(* -------------------------------- Update -------------------------------- *)

\* the outcomes to consider for the Start of Update (none when it is not
\* called) and for its configure
NoOutcome == [datasetOk |-> TRUE, connectOk |-> TRUE, createOk |-> FALSE]

StartOutcomes(old, new) == IF ~old.Enabled /\ new.Enabled THEN Outcomes ELSE {NoOutcome}

ConfigureOutcomes(new) == IF new.Enabled THEN Outcomes ELSE {NoOutcome}

\* Stop, called with the configuration cfg in place
Stop(cfg, st) ==
    IF ~cfg.Enabled THEN st ELSE [st EXCEPT !.InProgress = FALSE, !.Progress = 0]

\* Update returns err, leaving the configuration cfg and the state st; the
\* deferred n.state.Save() writes the configuration
UpdateReturn(cfg, st, err, id, restore) ==
    /\ Config' = cfg
    /\ State' = st
    /\ saved' = cfg
    /\ upd_pc' = "idle"
    /\ returned' = Return("Update", err, id, restore)
    /\ upd_req' = CfgZero
    /\ upd_old' = CfgZero
    /\ rs_apps' = {}
    /\ rs_idx' = 0
    /\ rs_err' = Nil
    /\ rs_ops' = <<>>
    /\ rs_safety' = FALSE
    /\ UNCHANGED <<windows, call, now, bkVars>>

\* the restore trigger with its comparison turned round
RestoreTriggered_Same(new, old) ==
    new.RestoreSnapshotID # "" /\ new.RestoreSnapshotID = old.RestoreSnapshotID

\* the restore trigger of Update
RestoreTriggered(new, old) ==
    new.RestoreSnapshotID # "" /\ new.RestoreSnapshotID # old.RestoreSnapshotID

\* Update from "Update the configuration" on, given the state st and the
\* request new: Start when the service gets enabled, configure when it is
\* enabled; o1 and o2 are the outcomes of the commands of the two calls
UpdateApply(old, st, new, o1, o2, id, restore) ==
    LET started == IF ~old.Enabled /\ new.Enabled
                   THEN configure(new, st, o1.datasetOk, o1.connectOk, o1.createOk)
                   ELSE [st |-> st, err |-> Nil, ops |-> <<>>]
        configured == IF new.Enabled
                      THEN configure(new, started.st, o2.datasetOk, o2.connectOk, o2.createOk)
                      ELSE [st |-> started.st, err |-> Nil, ops |-> <<>>]
    IN  IF started.err # Nil
        THEN UpdateReturn(new, started.st, started.err, id, restore)
        ELSE UpdateReturn(new, configured.st, configured.err, id, restore)

\* the request left as it came
ClearRestoreField_Kept(new) == new

\* the request after a successful restore
ClearRestoreField(new) == [new EXCEPT !.RestoreSnapshotID = ""]

\* PerformRestore goes on to its next blocking call
RestoreStep(st, pc, ops) ==
    /\ State' = st
    /\ upd_pc' = pc
    /\ rs_ops' = rs_ops \o ops
    /\ returned' = NoReturn
    /\ UNCHANGED <<Config, saved, windows, call, now, upd_req, upd_old, rs_safety,
                   bkVars>>

\* PerformRestore looks for the local pool: the call of storage.PoolExists
PerformRestoreFindPool(st, req) ==
    /\ State' = st
    /\ upd_pc' = "rs_find_pool"
    /\ upd_req' = req
    /\ upd_old' = Config
    /\ rs_ops' = <<Op("zpool", "exists", LocalPool)>>
    /\ returned' = NoReturn
    /\ UNCHANGED <<Config, saved, windows, call, now, rs_apps, rs_idx, rs_err,
                   rs_safety, bkVars>>

\* the entry without the check of the repository
PerformRestoreEntry_Unchecked(st, req) == PerformRestoreFindPool(st, req)

\* the entry of PerformRestore in the state st, up to the call of
\* storage.PoolExists
PerformRestoreEntry(st, req) ==
    IF ~st.RepositoryConnected
    THEN UpdateReturn(Config, st, <<"repository not connected">>,
                      req.RestoreSnapshotID, "error")
    ELSE PerformRestoreFindPool(st, req)

\* Update is called with req: oldState is taken, the service is stopped when
\* the request disables it, and the restore trigger is checked before the
\* configuration is updated
UpdateBegin(req) ==
    LET st == IF Config.Enabled /\ ~req.Enabled THEN Stop(Config, State) ELSE State
    IN  /\ upd_pc = "idle"
        /\ IF RestoreTriggered(req, Config)
           THEN PerformRestoreEntry(st, req)
           ELSE \E o1 \in StartOutcomes(Config, req), o2 \in ConfigureOutcomes(req) :
                    UpdateApply(Config, st, req, o1, o2, req.RestoreSnapshotID, "")

(* ---------------------------- PerformRestore ---------------------------- *)

\* what the visit of one unit by a stop or start loop can come to: the unit
\* cannot be loaded, it is not to be started (a service whose ShouldStart is
\* false), or its Stop or Start is called and fails or succeeds
UnitOutcomes == {"load failed", "not enabled", "failed", "ok"}

\* the visit of a unit by a loop, as it is logged: the attempt, whatever it
\* comes to (all four outcomes are only logged by the code)
Visit(kind, verb, name, outcome) ==
    IF outcome \in UnitOutcomes THEN <<Op(kind, verb, <<name>>)>> ELSE <<>>

\* slices.Reverse
Reverse(seq) == [i \in 1..Len(seq) |-> seq[Len(seq) + 1 - i]]

\* the next service after position i of the list that is not the Kopia
\* service itself; 0 when there is none
NextService(list, i) ==
    LET rest == {j \in (i + 1)..Len(list) : list[j] # "kopia"}
    IN  IF rest = {} THEN 0 ELSE CHOOSE j \in rest : \A k \in rest : j <= k

\* the name PerformRestore hands to createZFSSnapshot
SafetySnapshotName == LocalPool \o <<"@before-restore-", Timestamp>>

TempRestorePath == <<"/local", ".kopia-restore-temp">>

\* the return of a failed restore that leaves the request in place as the
\* configuration
RestoreAbort_Applying(st, err) ==
    UpdateReturn(upd_req, st, err, upd_req.RestoreSnapshotID, "error")

\* PerformRestore returns err with the state st, before its defer is set up;
\* Update returns the error
RestoreAbort(st, err) ==
    UpdateReturn(Config, st, err, upd_req.RestoreSnapshotID, "error")

\* the restore's deferred cleanup, taking the safety snapshot away with the
\* staging directory
RestoreDefer_DroppingSnapshot(st, err) ==
    /\ RestoreStep(st, "rs_remove_temp",
                   <<Op("zfs", "destroy", SnapshotName(SafetySnapshotName)),
                     Op("os", "RemoveAll", TempRestorePath)>>)
    /\ rs_err' = err
    /\ UNCHANGED <<rs_apps, rs_idx>>

\* the restore's deferred cleanup, starting the stopped units again before it
\* removes the staging directory
RestoreDefer_Restarting(st, err) ==
    /\ RestoreStep(st, "rs_remove_temp",
                   <<Op("service", "start", <<"svc1">>), Op("service", "start", <<"svc2">>),
                     Op("application", "start", <<"app1">>),
                     Op("os", "RemoveAll", TempRestorePath)>>)
    /\ rs_err' = err
    /\ UNCHANGED <<rs_apps, rs_idx>>

\* PerformRestore returns err with the state st: the deferred os.RemoveAll runs
RestoreDefer(st, err) ==
    /\ RestoreStep(st, "rs_remove_temp", <<Op("os", "RemoveAll", TempRestorePath)>>)
    /\ rs_err' = err
    /\ UNCHANGED <<rs_apps, rs_idx>>

\* findLocalPool has answered; on success the cycle starts with the
\* applications
RestoreFindPool(found) ==
    /\ upd_pc = "rs_find_pool"
    /\ IF ~found
       THEN RestoreAbort(State, <<"local ZFS pool not found">>)
       ELSE /\ RestoreStep(
                   [State EXCEPT !.InProgress = TRUE, !.Progress = 0,
                                 !.LastStatus = Status("Stopping services", Nil)],
                   "rs_stop_apps", <<>>)
            /\ rs_apps' = Applications
            /\ rs_idx' = 0
            /\ UNCHANGED rs_err

\* the stop loop giving up the restore when an application cannot be stopped
RestoreStopApp_Aborting(app, outcome) ==
    /\ upd_pc = "rs_stop_apps"
    /\ app \in rs_apps
    /\ outcome # "not enabled"
    /\ IF outcome = "failed"
       THEN RestoreAbort(
                [State EXCEPT !.InProgress = FALSE,
                              !.LastStatus = Status("Failed to stop application: ", ExitError)],
                ExitError)
       ELSE /\ RestoreStep(State,
                           IF rs_apps = {app} THEN "rs_stop_services" ELSE "rs_stop_apps",
                           Visit("application", "stop", app, outcome))
            /\ rs_apps' = rs_apps \ {app}
            /\ UNCHANGED <<rs_idx, rs_err>>

\* one application of the stop loop (a map: in any order)
RestoreStopApp(app, outcome) ==
    /\ upd_pc = "rs_stop_apps"
    /\ app \in rs_apps
    /\ outcome # "not enabled"
    /\ RestoreStep(State,
                   IF rs_apps = {app} THEN "rs_stop_services" ELSE "rs_stop_apps",
                   Visit("application", "stop", app, outcome))
    /\ rs_apps' = rs_apps \ {app}
    /\ UNCHANGED <<rs_idx, rs_err>>

\* PerformRestore after the stop loops: the safety snapshot is asked for
RestoreCreateSafetySnapshot(ops) ==
    /\ RestoreStep(
           [State EXCEPT !.Progress = 20,
                         !.LastStatus = Status("Creating safety snapshot", Nil)],
           "rs_safety_snapshot",
           ops \o <<Op("zfs", "snapshot", SnapshotName(SafetySnapshotName))>>)
    /\ rs_idx' = 0

\* one service of the stop loop over list; after the last one the safety
\* snapshot is asked for
RestoreStopNext(list, outcome) ==
    LET i == NextService(list, rs_idx)
        ops == Visit("service", "stop", list[i], outcome)
    IN  /\ upd_pc = "rs_stop_services"
        /\ i # 0
        /\ IF NextService(list, i) # 0
           THEN /\ RestoreStep(State, "rs_stop_services", ops)
                /\ rs_idx' = i
           ELSE RestoreCreateSafetySnapshot(ops)
        /\ UNCHANGED <<rs_apps, rs_err>>

\* the stop loop over the services in startup order
RestoreStopService_Forward(outcome) == RestoreStopNext(Supported, outcome)

\* one service of the stop loop, in reverse startup order
RestoreStopService(outcome) == RestoreStopNext(Reverse(Supported), outcome)

\* PerformRestore after the safety snapshot, created or not: the mountpoint
\* of the pool is asked for
RestorePrepare(created) ==
    /\ State' = [State EXCEPT !.Progress = 30,
                              !.LastStatus = Status("Preparing restore location", Nil)]
    /\ upd_pc' = "rs_mountpoint"
    /\ rs_ops' = Append(rs_ops, Op("zfs", "get mountpoint", LocalPool))
    /\ rs_safety' = created
    /\ returned' = NoReturn
    /\ UNCHANGED <<Config, saved, windows, call, now, upd_req, upd_old,
                   rs_apps, rs_idx, rs_err, bkVars>>

\* the result of "zfs snapshot" going unchecked
RestoreSafetySnapshot_Unchecked(ok) ==
    /\ upd_pc = "rs_safety_snapshot"
    /\ RestorePrepare(ok)

\* "zfs snapshot" of the safety snapshot has returned
RestoreSafetySnapshot(ok) ==
    /\ upd_pc = "rs_safety_snapshot"
    /\ IF ~ok
       THEN LET err == Wrap("failed to create ZFS snapshot", ExitError)
            IN  RestoreAbort(
                    [State EXCEPT !.InProgress = FALSE,
                                  !.LastStatus = Status("Failed to create safety snapshot: ", err)],
                    Wrap("failed to create safety snapshot", err))
       ELSE RestorePrepare(TRUE)

\* getPoolMountpoint has returned; the staging directory is made
RestoreMountpoint(ok) ==
    /\ upd_pc = "rs_mountpoint"
    /\ IF ~ok
       THEN LET err == Wrap("failed to get mountpoint", ExitError)
            IN  RestoreAbort(
                    [State EXCEPT !.InProgress = FALSE,
                                  !.LastStatus = Status("Failed to get pool mountpoint: ", err)],
                    err)
       ELSE /\ RestoreStep(
                   [State EXCEPT !.Progress = 40,
                                 !.LastStatus = Status("Clearing existing data", Nil)],
                   "rs_mkdir", <<Op("os", "MkdirAll", TempRestorePath)>>)
            /\ UNCHANGED <<rs_apps, rs_idx, rs_err>>

\* os.MkdirAll has returned; the snapshot is fetched into the staging directory
RestoreMkdir(ok) ==
    /\ upd_pc = "rs_mkdir"
    /\ IF ~ok
       THEN RestoreAbort(
                [State EXCEPT !.InProgress = FALSE,
                              !.LastStatus = Status("Failed to create temp restore path: ", ExitError)],
                ExitError)
       ELSE /\ RestoreStep(
                   [State EXCEPT !.Progress = 50,
                                 !.LastStatus = Status("Restoring snapshot", Nil)],
                   "rs_staging",
                   <<Op("kopia", "snapshot restore", <<upd_req.RestoreSnapshotID>> \o TempRestorePath)>>)
            /\ UNCHANGED <<rs_apps, rs_idx, rs_err>>

\* "kopia snapshot restore" has returned; the staged data is applied
RestoreStaging(ok) ==
    /\ upd_pc = "rs_staging"
    /\ IF ~ok
       THEN LET err == Wrap("failed to restore snapshot", ExitError)
            IN  RestoreDefer(
                    [State EXCEPT !.InProgress = FALSE,
                                  !.LastStatus = Status("Failed to restore snapshot: ", err)],
                    err)
       ELSE /\ RestoreStep(
                   [State EXCEPT !.Progress = 70,
                                 !.LastStatus = Status("Applying restored data", Nil)],
                   "rs_apply", <<Op("rsync", "-a --delete", TempRestorePath)>>)
            /\ UNCHANGED <<rs_apps, rs_idx, rs_err>>

\* rsync has returned; the services are started
RestoreApply(ok) ==
    /\ upd_pc = "rs_apply"
    /\ IF ~ok
       THEN LET err == Wrap("failed to apply restored data", ExitError)
            IN  RestoreDefer(
                    [State EXCEPT !.InProgress = FALSE,
                                  !.LastStatus = Status("Failed to apply restored data: ", err)],
                    err)
       ELSE /\ RestoreStep(
                   [State EXCEPT !.Progress = 80,
                                 !.LastStatus = Status("Starting services", Nil)],
                   "rs_start_services", <<>>)
            /\ rs_idx' = 0
            /\ UNCHANGED <<rs_apps, rs_err>>

\* the start loop over the services in reverse startup order
RestoreStartService_Reverse(outcome) ==
    LET list == Reverse(Supported)
        i == NextService(list, rs_idx)
    IN  /\ upd_pc = "rs_start_services"
        /\ i # 0
        /\ RestoreStep(State,
                       IF NextService(list, i) # 0
                       THEN "rs_start_services" ELSE "rs_start_apps",
                       Visit("service", "start", list[i], outcome))
        /\ rs_idx' = i
        /\ rs_apps' = Applications
        /\ UNCHANGED rs_err

\* one service of the start loop, in startup order
RestoreStartService(outcome) ==
    LET i == NextService(Supported, rs_idx)
    IN  /\ upd_pc = "rs_start_services"
        /\ i # 0
        /\ RestoreStep(State,
                       IF NextService(Supported, i) # 0
                       THEN "rs_start_services" ELSE "rs_start_apps",
                       Visit("service", "start", Supported[i], outcome))
        /\ rs_idx' = i
        /\ rs_apps' = Applications
        /\ UNCHANGED rs_err

\* one application of the start loop; after the last one the restore is
\* marked complete and returns nil
RestoreStartApp(app, outcome) ==
    LET ops == Visit("application", "start", app, outcome)
    IN  /\ upd_pc = "rs_start_apps"
        /\ app \in rs_apps
        /\ outcome # "not enabled"
        /\ IF rs_apps # {app}
           THEN /\ RestoreStep(State, "rs_start_apps", ops)
                /\ rs_apps' = rs_apps \ {app}
                /\ UNCHANGED <<rs_idx, rs_err>>
           ELSE /\ RestoreStep(
                       [State EXCEPT !.InProgress = FALSE, !.Progress = 100,
                                     !.LastStatus = Status("Restore completed successfully", Nil)],
                       "rs_remove_temp",
                       ops \o <<Op("os", "RemoveAll", TempRestorePath)>>)
                /\ rs_apps' = {}
                /\ rs_err' = Nil
                /\ UNCHANGED rs_idx

\* the return of PerformRestore that hands on a failure of os.RemoveAll
RestoreRemoveTemp_Checked ==
    /\ upd_pc = "rs_remove_temp"
    /\ \E removed \in BOOLEAN :
           IF rs_err # Nil \/ ~removed
           THEN RestoreAbort(State, IF rs_err # Nil THEN rs_err ELSE ExitError)
           ELSE \E o1 \in StartOutcomes(upd_old, upd_req), o2 \in ConfigureOutcomes(upd_req) :
                    UpdateApply(upd_old, State, ClearRestoreField(upd_req), o1, o2,
                                upd_req.RestoreSnapshotID, "nil")

\* the deferred os.RemoveAll has returned and PerformRestore returns; after
\* a successful restore Update clears the restore field and goes on
RestoreRemoveTemp ==
    /\ upd_pc = "rs_remove_temp"
    /\ IF rs_err # Nil
       THEN RestoreAbort(State, rs_err)
       ELSE \E o1 \in StartOutcomes(upd_old, upd_req), o2 \in ConfigureOutcomes(upd_req) :
                UpdateApply(upd_old, State, ClearRestoreField(upd_req), o1, o2,
                            upd_req.RestoreSnapshotID, "nil")

Update ==
    \/ \E req \in Requests : UpdateBegin(req)
    \/ \E ok \in BOOLEAN :
        \/ RestoreFindPool(ok)
        \/ RestoreSafetySnapshot(ok)
        \/ RestoreMountpoint(ok)
        \/ RestoreMkdir(ok)
        \/ RestoreStaging(ok)
        \/ RestoreApply(ok)
    \/ \E outcome \in UnitOutcomes :
        \/ \E app \in Applications : RestoreStopApp(app, outcome)
        \/ RestoreStopService(outcome)
        \/ RestoreStartService(outcome)
        \/ \E app \in Applications : RestoreStartApp(app, outcome)
    \/ RestoreRemoveTemp

Next == AdvanceTime \/ Backup \/ Update

Spec == Init /\ [][Next]_vars

(* --------------------------- cycles in flight --------------------------- *)

\* performBackup is between setting InProgress and marking its cycle
\* complete or failed
BackupInFlight ==
    bk_pc \in {"zfs_snapshot", "snapshot_path", "kopia_create", "retention", "destroy"}

\* PerformRestore is between setting InProgress and marking its cycle
\* complete or failed
RestoreInFlight ==
    upd_pc \in {"rs_stop_apps", "rs_stop_services", "rs_safety_snapshot",
                "rs_mountpoint", "rs_mkdir", "rs_staging", "rs_apply",
                "rs_start_services", "rs_start_apps"}

\* the step taken is a call of PerformRestore by Update
RestoreRequested == upd_pc = "idle" /\ (upd_pc' # "idle" \/ returned'.restore # "")

\* the operations of a restore on the pool: the safety snapshot, and the
\* writes under the pool's mountpoint (the staging directory, the fetch into
\* it, the rsync onto the mount)
IsSafetySnapshot(op) == op = Op("zfs", "snapshot", SnapshotName(SafetySnapshotName))

IsPoolWrite(op) ==
    \/ op.tool \in {"os", "rsync"}
    \/ op.tool = "kopia" /\ op.verb = "snapshot restore"

\* the entries of the stop loops in the log of the running restore; an entry
\* stands for the loop's turn on that unit, within which its Stop is called
StopIndexes == {i \in DOMAIN rs_ops : rs_ops[i].verb = "stop"}

\* the place of a service in the startup order
StartupPosition(name) == CHOOSE k \in DOMAIN Supported : Supported[k] = name

(* -------------------------------- claims -------------------------------- *)

\* C1: in a restore, the directory under the pool mount is made, the snapshot
\* is fetched into it and the staged data is applied only after the safety
\* snapshot was asked for and created in that same restore; when its creation
\* fails, the restore has written nothing under the pool mount.
C1_SafetySnapshotBeforeWrites ==
    \A i \in DOMAIN rs_ops :
        IsPoolWrite(rs_ops[i]) =>
            /\ rs_safety
            /\ \E j \in 1..(i - 1) : IsSafetySnapshot(rs_ops[j])

\* a restore that has issued the rsync onto the live mount
C1_Witness ==
    /\ upd_pc = "rs_apply"
    /\ \E i \in DOMAIN rs_ops : rs_ops[i].tool = "rsync"

\* C2: in a restore every stop comes before the safety snapshot, the fetch
\* and the apply step, which are issued only once every application and every
\* service but Kopia has had its turn; applications come first, then the
\* services in reverse startup order, and the Kopia service is never stopped.
C2_StopsBeforeData ==
    /\ \A i \in StopIndexes : \A j \in DOMAIN rs_ops :
           (IsSafetySnapshot(rs_ops[j]) \/ IsPoolWrite(rs_ops[j])) => i < j
    /\ (\E j \in DOMAIN rs_ops : IsSafetySnapshot(rs_ops[j])) =>
           /\ \A app \in Applications :
                  \E i \in StopIndexes : rs_ops[i] = Op("application", "stop", <<app>>)
           /\ \A k \in DOMAIN Supported :
                  Supported[k] # "kopia" =>
                      \E i \in StopIndexes : rs_ops[i] = Op("service", "stop", <<Supported[k]>>)
    /\ \A i, j \in StopIndexes :
           rs_ops[i].tool = "application" /\ rs_ops[j].tool = "service" => i < j
    /\ \A i, j \in StopIndexes :
           rs_ops[i].tool = "service" /\ rs_ops[j].tool = "service" /\ i < j =>
               StartupPosition(rs_ops[i].target[1]) > StartupPosition(rs_ops[j].target[1])
    /\ \A i \in StopIndexes : rs_ops[i].target # <<"kopia">>

\* a restore waiting for its safety snapshot, with both services stopped
C2_Witness ==
    /\ upd_pc = "rs_safety_snapshot"
    /\ \E i, j \in StopIndexes :
           /\ i < j
           /\ rs_ops[i] = Op("service", "stop", <<"svc2">>)
           /\ rs_ops[j] = Op("service", "stop", <<"svc1">>)

\* C3: at most one backup-or-restore cycle is in flight at any time.
C3_OneCycleInFlight == ~(BackupInFlight /\ RestoreInFlight)

\* C4: an Update that arrives while in_progress is true does not get past
\* the entry of PerformRestore: it returns in the same step, whether it
\* carries a restore trigger or not.
C4_TriggerRejectedInProgress ==
    [][(upd_pc = "idle" /\ State.InProgress) => upd_pc' = "idle"]_vars

\* C5: PerformRestore called while the repository is not connected returns
\* "repository not connected" at once: it leaves the state as it found it
\* (the state as it is, or as the Stop of a disabling Update left it), issues
\* no operation and stops nothing.
C5_RestoreNotConnected ==
    [][(RestoreRequested /\ ~State.RepositoryConnected) =>
           /\ upd_pc' = "idle"
           /\ returned'.by = "Update"
           /\ returned'.err = <<"repository not connected">>
           /\ returned'.restore = "error"
           /\ State' \in {State, Stop(Config, State)}
           /\ State'.InProgress = (State.InProgress /\ State' = State)
           /\ rs_ops' = <<>>
           /\ Config' = Config]_vars

\* an Update whose restore was refused for the repository
C5_Witness ==
    returned = Return("Update", <<"repository not connected">>, "k123", "error")

\* C6: Update calls PerformRestore exactly when the restore_snapshot_id of
\* its request is not empty and differs from the persisted one; a request
\* with an empty or unchanged restore_snapshot_id starts no restore.
C6_RestoreTriggerExact ==
    [][(upd_pc = "idle" /\ (upd_pc' # "idle" \/ returned'.by = "Update")) =>
           LET id == IF upd_pc' = "idle"
                     THEN returned'.id
                     ELSE upd_req'.RestoreSnapshotID
           IN  RestoreRequested <=> (id # "" /\ id # saved.RestoreSnapshotID)]_vars

\* a restore started by a request naming a snapshot
C6_Witness ==
    /\ upd_pc = "rs_find_pool"
    /\ upd_req.RestoreSnapshotID = "k123"
    /\ saved.RestoreSnapshotID = ""

\* C7: when an Update that called PerformRestore has returned, with the
\* restore's error or after its success, restore_snapshot_id is empty in the
\* configuration in memory and in the one written by Save.
C7_RestoreFieldCleared ==
    (returned.by = "Update" /\ returned.restore # "") =>
        /\ saved.RestoreSnapshotID = ""
        /\ Config.RestoreSnapshotID = ""

\* an Update has returned after the restore it asked for succeeded
C7_Witness ==
    /\ returned.by = "Update"
    /\ returned.restore = "nil"
    /\ returned.id = "k123"

\* the step taken ends the backup after its snapshot was created: the
\* snapshot path or the Kopia snapshot failed
BackupFailsAfterSnapshot ==
    /\ bk_pc \in {"snapshot_path", "kopia_create"}
    /\ bk_pc' \in {"idle", "defer_destroy"}

\* C8: a backup that fails after its snapshot was created sets in_progress
\* to false, puts the error in last_status and issues the destroy of the
\* snapshot it created; performBackup then returns that error, writing
\* nothing more to the state.
C8_BackupFailureCleansUp ==
    [][/\ BackupFailsAfterSnapshot =>
              /\ bk_pc' = "defer_destroy"
              /\ ~State'.InProgress
              /\ bk_ret' # Nil
              /\ State'.LastStatus.err = bk_ret'
              /\ \E i \in DOMAIN bk_ops : bk_ops[i] = Op("zfs", "snapshot", bk_snapshot)
              /\ bk_ops' = Append(bk_ops, Op("zfs", "destroy", bk_snapshot))
       /\ (bk_pc = "defer_destroy" /\ bk_ret # Nil /\ bk_pc' # bk_pc) =>
              /\ returned' = Return("performBackup", bk_ret, "", "")
              /\ State' = State]_vars

\* performBackup has returned the error of the failed Kopia snapshot
C8_Witness ==
    returned = Return("performBackup", ExitError, "", "")

\* C9: whenever in_progress is false, progress is 0 or 100.
C9_ProgressAtRest == ~State.InProgress => State.Progress \in {0, 100}

C11_IntervalElapsed ==
    [][(bk_pc = "idle" /\ bk_pc' = "call" /\ Config.BackupFrequency # 0 /\ bk_last # 0) =>
           now - bk_last >= Config.BackupFrequency]_vars

\* a tick under a duration schedule, with nothing else in its way, before the
\* duration has elapsed since the last completed cycle
C11_Witness ==
    /\ bk_last # 0
    /\ Config.BackupFrequency # 0
    /\ now - bk_last < Config.BackupFrequency
    /\ bk_pc = "idle"
    /\ Config.Enabled
    /\ ~State.InProgress
    /\ State.RepositoryConnected
    /\ isInMaintenanceWindow

(* --------------------- functions called on their own -------------------- *)

\* The most windows a list of maintenance windows holds.
MaxWindows == 2

\* the lists of configured windows, each window as what its IsCurrentlyActive
\* answers
WindowLists == UNION {[1..n -> BOOLEAN] : n \in 0..MaxWindows}

\* the states a call finds the service in: the repository connected or not,
\* with or without a snapshot list from an earlier refresh
CallStates ==
    {[ServiceKopiaState EXCEPT !.RepositoryConnected = connected,
                               !.AvailableSnapshots = snapshots] :
        connected \in BOOLEAN, snapshots \in {<<>>, <<"k123">>}}

\* what a call of a function on its own leaves alone
calledVars == <<saved, windows, now, updVars, bkVars, returned>>

InitCalls ==
    /\ Config \in {CfgZero, CfgDefault}
    /\ State \in CallStates
    /\ saved = Config
    /\ windows \in BOOLEAN
    /\ now = 1
    /\ upd_pc = "idle"
    /\ upd_req = CfgZero
    /\ upd_old = CfgZero
    /\ rs_apps = {}
    /\ rs_idx = 0
    /\ rs_err = Nil
    /\ rs_ops = <<>>
    /\ rs_safety = FALSE
    /\ bk_pc = "idle"
    /\ bk_done = {}
    /\ bk_last = 0
    /\ bk_snapshot = <<>>
    /\ bk_err = Nil
    /\ bk_ret = Nil
    /\ bk_ops = <<>>
    /\ returned = NoReturn
    /\ call = NoCall

\* isInMaintenanceWindow is called with the windows ws configured
CallIsInMaintenanceWindow(ws) ==
    /\ call' = Call("isInMaintenanceWindow", ws, isInMaintenanceWindowOf(ws))
    /\ UNCHANGED <<Config, State, calledVars>>

\* C12: with no window configured the check allows at every time; with
\* windows configured it allows exactly when at least one of them is active.
C12_WindowCheck ==
    call.fn = "isInMaintenanceWindow" =>
        call.out = (Len(call.in) = 0 \/ \E i \in DOMAIN call.in : call.in[i])

\* the check was made with two windows, of which only the second is active
C12_Witness == call = Call("isInMaintenanceWindow", <<FALSE, TRUE>>, TRUE)

RetentionCounts == {-1, 0, 7}

RetentionPolicies ==
    [KeepLatest : RetentionCounts, KeepHourly : RetentionCounts,
     KeepDaily : RetentionCounts, KeepWeekly : RetentionCounts,
     KeepMonthly : RetentionCounts, KeepAnnual : RetentionCounts]

\* applyRetention is called with the policy r configured
CallApplyRetention(r, ok) ==
    /\ call' = Call("applyRetention", r, applyRetention(r, ok))
    /\ UNCHANGED <<Config, State, calledVars>>

\* the flag of each count of a retention policy
RetentionFlag ==
    [KeepLatest |-> "--keep-latest", KeepHourly |-> "--keep-hourly",
     KeepDaily |-> "--keep-daily", KeepWeekly |-> "--keep-weekly",
     KeepMonthly |-> "--keep-monthly", KeepAnnual |-> "--keep-annual"]

\* C14: applyRetention on a policy whose six counts are all zero issues no
\* command and returns nil; on a policy with a positive count it issues one
\* "kopia snapshot expire", whose flags are those of the positive counts, each
\* once and with its count.
C14_RetentionFlags ==
    call.fn = "applyRetention" =>
        LET r == call.in
            positive == {f \in DOMAIN RetentionFlag : r[f] > 0}
        IN  /\ (\A f \in DOMAIN RetentionFlag : r[f] = 0) =>
                   call.out = [ops |-> <<>>, err |-> Nil]
            /\ positive # {} =>
                   /\ Len(call.out.ops) = 1
                   /\ call.out.ops[1].tool = "kopia"
                   /\ call.out.ops[1].verb = "snapshot expire"
                   /\ Len(call.out.ops[1].target) = Cardinality(positive)
                   /\ {call.out.ops[1].target[i] : i \in DOMAIN call.out.ops[1].target}
                          = {<<RetentionFlag[f], r[f]>> : f \in positive}

\* applyRetention was called with keep_daily and keep_annual alone positive
C14_Witness ==
    /\ call.fn = "applyRetention"
    /\ call.in = [NoRetention EXCEPT !.KeepDaily = 7, !.KeepAnnual = 7]
    /\ Len(call.out.ops) = 1

\* what "kopia snapshot list --json" comes to: the command fails, its output
\* does not parse, or it lists the snapshots of the repository
ListOutcomes ==
    {[result |-> "list failed", snapshots |-> <<>>],
     [result |-> "parse failed", snapshots |-> <<>>],
     [result |-> "listed", snapshots |-> <<>>],
     [result |-> "listed", snapshots |-> <<"k123">>],
     [result |-> "listed", snapshots |-> <<"k123", "k456">>]}

\* refreshSnapshots on the state st: the state it leaves and the error it
\* returns
refreshSnapshots(st, outcome) ==
    IF outcome.result = "list failed"
    THEN [st |-> st, err |-> Wrap("failed to list snapshots", ExitError)]
    ELSE IF outcome.result = "parse failed"
    THEN [st |-> st, err |-> Wrap("failed to parse snapshot list", <<"invalid character">>)]
    ELSE [st |-> [st EXCEPT !.AvailableSnapshots = outcome.snapshots], err |-> Nil]

\* Get handing on the error of the refresh
Get_Propagating(cfg, st, outcome) ==
    IF cfg.Enabled /\ st.RepositoryConnected
    THEN LET r == refreshSnapshots(st, outcome)
         IN  [st |-> r.st, value |-> [State |-> r.st, Config |-> cfg], err |-> r.err,
              ops |-> <<Op("kopia", "snapshot list", <<"--json">>)>>]
    ELSE [st |-> st, value |-> [State |-> st, Config |-> cfg], err |-> Nil, ops |-> <<>>]

\* Get with the configuration cfg and the state st in place: the state it
\* leaves, the record and the error it returns, and the commands it issued
Get(cfg, st, outcome) ==
    IF cfg.Enabled /\ st.RepositoryConnected
    THEN LET r == refreshSnapshots(st, outcome)
         IN  [st |-> r.st, value |-> [State |-> r.st, Config |-> cfg], err |-> Nil,
              ops |-> <<Op("kopia", "snapshot list", <<"--json">>)>>]
    ELSE [st |-> st, value |-> [State |-> st, Config |-> cfg], err |-> Nil, ops |-> <<>>]

\* Get is called
CallGet(outcome) ==
    LET got == Get(Config, State, outcome)
    IN  /\ call' = Call("Get", [cfg |-> Config, st |-> State, outcome |-> outcome], got)
        /\ State' = got.st
        /\ UNCHANGED <<Config, calledVars>>

\* C15: Get returns no error and the service record as it stands; the list
\* command is issued exactly when the service is enabled and the repository
\* connected; when the refresh fails the state is left as it was, and a
\* refresh that succeeds changes available_snapshots only.
C15_GetNeverFails ==
    call.fn = "Get" =>
        /\ call.out.err = Nil
        /\ call.out.value = [State |-> call.out.st, Config |-> call.in.cfg]
        /\ (call.out.ops # <<>>) = (call.in.cfg.Enabled /\ call.in.st.RepositoryConnected)
        /\ (call.out.ops = <<>> \/ call.in.outcome.result # "listed") =>
               call.out.st = call.in.st
        /\ [call.out.st EXCEPT !.AvailableSnapshots = <<>>]
               = [call.in.st EXCEPT !.AvailableSnapshots = <<>>]

\* Get was called with a snapshot list in place and its refresh failed
C15_Witness ==
    /\ call.fn = "Get"
    /\ call.in.outcome.result = "list failed"
    /\ call.out.ops # <<>>
    /\ call.out.st.AvailableSnapshots = <<"k123">>

\* the S3 blocks of a request: absent, complete (with or without a region),
\* or with one required field empty
S3Blocks ==
    {NoS3, S3Complete, [S3Complete EXCEPT !.Region = "eu"], S3NoBucket,
     [S3Complete EXCEPT !.Endpoint = ""], [S3Complete EXCEPT !.AccessKey = ""],
     [S3Complete EXCEPT !.SecretKey = ""]}

\* the configurations configure is called with
CallConfigs ==
    {ServiceKopiaConfig(TRUE, password, [Type |-> type, S3 |-> block], NoRetention, 0, "") :
        password \in {"", "pw"}, type \in {"s3", "sftp"}, block \in S3Blocks}

\* every way the external commands of one configure call can end
CallOutcomes == [datasetOk : BOOLEAN, connectOk : BOOLEAN, createOk : BOOLEAN]

\* configure is called with the configuration cfg in place
CallConfigure(cfg, outcome) ==
    LET done == configure(cfg, State, outcome.datasetOk, outcome.connectOk, outcome.createOk)
    IN  /\ call' = Call("configure", [cfg |-> cfg, st |-> State, outcome |-> outcome], done)
        /\ Config' = cfg
        /\ State' = done.st
        /\ UNCHANGED calledVars

\* C16: a call of configure issues "repository create" at most once, right
\* after a "repository connect" of the same call that failed; when the
\* connect succeeds it issues no create.
C16_CreateOnlyAfterFailedConnect ==
    call.fn = "configure" =>
        LET ops == call.out.ops
            creates == {i \in DOMAIN ops : ops[i].verb = "repository create"}
        IN  /\ Cardinality(creates) <= 1
            /\ \A i \in creates :
                   /\ i > 1
                   /\ ops[i - 1].verb = "repository connect"
                   /\ ~call.in.outcome.connectOk
            /\ call.in.outcome.connectOk => creates = {}

\* configure connected to the repository that is there
C16_Witness ==
    /\ call.fn = "configure"
    /\ call.in.outcome.connectOk
    /\ call.out.ops = <<Op("kopia", "repository connect", <<"backups">>)>>
    /\ call.out.st.RepositoryConnected

\* C17: configure on a backend with a required field missing (another type
\* than s3, no S3 block, or an empty endpoint, bucket, access key or secret
\* key) returns an error, issues no command and sets repository_connected to
\* false; when the connect and the create both fail it returns an error and
\* sets repository_connected to false; when one of them succeeds it sets
\* repository_connected to true and last_status to "Repository connected".
C17_ConfigureOutcome ==
    call.fn = "configure" =>
        LET cfg == call.in.cfg
            s3 == cfg.Backend.S3
            missing == \/ cfg.Backend.Type # "s3"
                       \/ ~s3.Present
                       \/ s3.Endpoint = ""
                       \/ s3.Bucket = ""
                       \/ s3.AccessKey = ""
                       \/ s3.SecretKey = ""
            tried == ~missing /\ call.in.outcome.datasetOk
            connected == cfg.RepositoryPassword # "" /\ call.in.outcome.connectOk
            created == cfg.RepositoryPassword # "" /\ call.in.outcome.createOk
        IN  /\ missing =>
                   /\ call.out.err # Nil
                   /\ call.out.ops = <<>>
                   /\ ~call.out.st.RepositoryConnected
                   /\ call.out.st.LastStatus =
                          Status("Backend configuration invalid: ", call.out.err)
            /\ (tried /\ ~connected /\ ~created) =>
                   /\ call.out.err # Nil
                   /\ ~call.out.st.RepositoryConnected
            /\ (tried /\ (connected \/ created)) =>
                   /\ call.out.err = Nil
                   /\ call.out.st.RepositoryConnected
                   /\ call.out.st.LastStatus = Status("Repository connected", Nil)

\* configure refused a backend whose bucket is empty
C17_Witness ==
    /\ call.fn = "configure"
    /\ call.in.cfg.Backend.S3 = S3NoBucket
    /\ call.in.cfg.Backend.Type = "s3"
    /\ call.out.err = <<"S3 configuration incomplete">>

\* the functions without effect on the service, called on their own
NextCalls ==
    \/ \E ws \in WindowLists : CallIsInMaintenanceWindow(ws)
    \/ \E r \in RetentionPolicies, ok \in BOOLEAN : CallApplyRetention(r, ok)

SpecCalls == Init /\ [][NextCalls]_vars

\* Get and configure, called on their own
NextHandlers ==
    \/ \E outcome \in ListOutcomes : CallGet(outcome)
    \/ \E cfg \in CallConfigs, outcome \in CallOutcomes : CallConfigure(cfg, outcome)

SpecHandlers == InitCalls /\ [][NextHandlers]_vars

\* C18: an Update that calls no restore leaves the service state as it was.
C18_UpdateLeavesState ==
    [][(upd_pc = "idle" /\ returned'.by = "Update" /\ returned'.restore = "") =>
           State' = State]_vars

\* the errors of the preconditions of performBackup and PerformRestore and of
\* the validation of configure
PreconditionErrors ==
    {<<"repository not connected">>, <<"outside maintenance window">>,
     <<"local ZFS pool not found">>, <<"S3 backend configuration missing">>,
     <<"S3 configuration incomplete">>}

\* the state st has the error err in its last_status (the status of a cycle
\* outside the window is the error's text with a capital)
InLastStatus(st, err) ==
    \/ st.LastStatus.err = err
    \/ err = <<"outside maintenance window">>
           /\ st.LastStatus = Status("Outside maintenance window", Nil)

\* C19: when performBackup or Update returns the error of a precondition or
\* of the validation of the backend, last_status holds that error.
C19_PreconditionInStatus ==
    [][returned'.err \in PreconditionErrors => InLastStatus(State', returned'.err)]_vars

\* C20: the snapshot a restore asks for is named <pool>@before-restore-<timestamp>
\* and carries no "@kopia-" part.
C20_SafetySnapshotName ==
    \A i \in DOMAIN rs_ops :
        (rs_ops[i].tool = "zfs" /\ rs_ops[i].verb = "snapshot") =>
            /\ rs_ops[i].target = LocalPool \o <<"@before-restore-", Timestamp>>
            /\ \A k \in DOMAIN rs_ops[i].target : rs_ops[i].target[k] # "@kopia-"

\* the operation destroys a snapshot
IsSnapshotDestroy(op) == op.tool = "zfs" /\ op.verb = "destroy"

\* C21: a backup cycle issues a destroy only for the snapshot it asked for
\* earlier in that same cycle, which is never a safety snapshot; a restore
\* issues no destroy of a snapshot, whether it succeeds or fails.
C21_SafetySnapshotKept ==
    /\ \A i \in DOMAIN bk_ops :
           IsSnapshotDestroy(bk_ops[i]) =>
               /\ bk_ops[i].target = bk_snapshot
               /\ \E j \in 1..(i - 1) : bk_ops[j] = Op("zfs", "snapshot", bk_ops[i].target)
               /\ ~IsSafetySnapshot(Op("zfs", "snapshot", bk_ops[i].target))
    /\ \A i \in DOMAIN rs_ops : ~IsSnapshotDestroy(rs_ops[i])

\* a restore that failed after its safety snapshot was created runs its
\* deferred cleanup while a failed backup destroys its own snapshot
C21_Witness ==
    /\ upd_pc = "rs_remove_temp"
    /\ rs_err # Nil
    /\ rs_safety
    /\ bk_pc = "defer_destroy"

\* C22: performBackup called while the repository is not connected, or while
\* no maintenance window allows it at the time of the call, returns an error
\* in that step: it has issued no operation, and it leaves every field of the
\* state but last_status as it was.
C22_BackupPreconditions ==
    [][(bk_pc = "call" /\ bk_pc' # "call"
            /\ (~State.RepositoryConnected \/ ~isInMaintenanceWindow)) =>
           /\ bk_pc' = "idle"
           /\ returned'.by = "performBackup"
           /\ returned'.err # Nil
           /\ bk_ops = <<>>
           /\ bk_ops' = <<>>
           /\ [State' EXCEPT !.LastStatus = State.LastStatus] = State]_vars

\* performBackup, called in an open window with the repository connected,
\* has found the window closed and returned
C22_Witness ==
    /\ returned = Return("performBackup", <<"outside maintenance window">>, "", "")
    /\ State.RepositoryConnected
    /\ State.LastStatus = Status("Outside maintenance window", Nil)

\* C23: while in_progress stays true, progress never decreases, and a step
\* that sets in_progress to true starts at progress 0.
C23_ProgressMonotonic ==
    [][/\ (State.InProgress /\ State'.InProgress) => State'.Progress >= State.Progress
       /\ (~State.InProgress /\ State'.InProgress) => State'.Progress = 0]_vars

\* C24: once the snapshot and the Kopia snapshot of a backup succeeded, the
\* retention step goes on to the destroy of the snapshot whatever "kopia
\* snapshot expire" returned, and the step after the destroy marks the cycle
\* complete (in_progress = false, progress = 100, last_backup the current
\* time, last_status "Backup completed successfully") whatever "zfs destroy"
\* returned; performBackup then returns nil, at once or after its deferred
\* cleanup, which writes nothing to the state.
C24_CleanupFailuresIgnored ==
    [][/\ (bk_pc = "retention" /\ bk_pc' # bk_pc) => bk_pc' = "destroy"
       /\ (bk_pc = "destroy" /\ bk_pc' # bk_pc) =>
              /\ ~State'.InProgress
              /\ State'.Progress = 100
              /\ State'.LastBackup = now
              /\ State'.LastStatus = Status("Backup completed successfully", Nil)
              /\ \/ returned' = Return("performBackup", Nil, "", "")
                 \/ bk_pc' = "defer_destroy" /\ bk_ret' = Nil
       /\ (bk_pc = "defer_destroy" /\ bk_ret = Nil /\ bk_pc' # bk_pc) =>
              /\ returned' = Return("performBackup", Nil, "", "")
              /\ [State' EXCEPT !.LastBackupWindow = State.LastBackupWindow] = State]_vars

\* a cycle that applied its retention policy is marked complete although the
\* destroy of its snapshot failed, and is about to return nil
C24_Witness ==
    /\ bk_pc = "defer_destroy"
    /\ bk_ret = Nil
    /\ bk_err = Wrap("failed to destroy ZFS snapshot", ExitError)
    /\ \E i \in DOMAIN bk_ops : bk_ops[i].verb = "snapshot expire"
    /\ ~State.InProgress
    /\ State.Progress = 100
    /\ State.LastStatus = Status("Backup completed successfully", Nil)

\* the running restore has started a unit
RestoreHasStarted == \E i \in DOMAIN rs_ops : rs_ops[i].verb = "start"

\* C25: a restore whose safety snapshot fails returns the error in that
\* step, with nothing staged, applied or started, in_progress false and the
\* failure in last_status; a restore whose fetch or apply fails sets
\* in_progress to false and puts the error in last_status, issues nothing
\* more than the removal of the staging directory (no apply after a failed
\* fetch, no start of a unit) and then returns that error through Update,
\* writing nothing more to the state.
C25_RestoreAborts ==
    [][/\ (upd_pc = "rs_safety_snapshot" /\ upd_pc' = "idle") =>
              /\ returned'.by = "Update"
              /\ returned'.restore = "error"
              /\ returned'.err # Nil
              /\ ~State'.InProgress
              /\ State'.LastStatus.msg = "Failed to create safety snapshot: "
              /\ State'.LastStatus.err # Nil
              /\ ~RestoreHasStarted
              /\ \A i \in DOMAIN rs_ops : ~IsPoolWrite(rs_ops[i])
       /\ (upd_pc \in {"rs_staging", "rs_apply"} /\ upd_pc' = "rs_remove_temp") =>
              /\ rs_err' # Nil
              /\ ~State'.InProgress
              /\ State'.LastStatus.err = rs_err'
              /\ rs_ops' = Append(rs_ops, Op("os", "RemoveAll", TempRestorePath))
              /\ ~RestoreHasStarted
              /\ upd_pc = "rs_staging" =>
                     \A i \in DOMAIN rs_ops : rs_ops[i].tool # "rsync"
       /\ (upd_pc = "rs_remove_temp" /\ rs_err # Nil /\ upd_pc' # upd_pc) =>
              /\ returned' = Return("Update", rs_err, upd_req.RestoreSnapshotID, "error")
              /\ State' = State
              /\ ~RestoreHasStarted]_vars

\* Update has returned the error of a restore whose apply step failed
C25_Witness ==
    /\ returned.by = "Update"
    /\ returned.restore = "error"
    /\ returned.err = Wrap("failed to apply restored data", ExitError)
    /\ ~State.InProgress
    /\ State.LastStatus.err = returned.err

\* the removal of the staging directory
RemoveStaging == Op("os", "RemoveAll", TempRestorePath)

\* C26: a restore that has made its staging directory does not return before
\* it has issued the removal of that directory; the removal is the last
\* operation it issues, once, after the apply step if that ran; and what
\* PerformRestore returns was settled before the removal ran.
C26_StagingRemoved ==
    [][/\ upd_pc \in {"rs_staging", "rs_apply", "rs_start_services", "rs_start_apps"} =>
              upd_pc' # "idle"
       /\ upd_pc' = "rs_remove_temp" =>
              /\ rs_ops'[Len(rs_ops')] = RemoveStaging
              /\ \A i \in 1..(Len(rs_ops') - 1) : rs_ops'[i] # RemoveStaging
              /\ \E i \in DOMAIN rs_ops' : rs_ops'[i] = Op("os", "MkdirAll", TempRestorePath)
       /\ (upd_pc = "rs_remove_temp" /\ upd_pc' # upd_pc) =>
              /\ returned'.by = "Update"
              /\ returned'.restore = (IF rs_err = Nil THEN "nil" ELSE "error")
              /\ rs_err # Nil => returned'.err = rs_err]_vars

\* a restore that applied the staged data and started the units runs the
\* removal of its staging directory
C26_Witness ==
    /\ upd_pc = "rs_remove_temp"
    /\ rs_err = Nil
    /\ \E i \in DOMAIN rs_ops : rs_ops[i].tool = "rsync"
    /\ rs_ops[Len(rs_ops)] = RemoveStaging

\* the entries of the start loops in the log ops of a restore; an entry
\* stands for the loop's turn on that unit, within which its Start is called
StartIndexesOf(ops) == {i \in DOMAIN ops : ops[i].verb = "start"}

\* the log ops has the turn of every service but Kopia and of every
\* application in the start loops
AllStarted(ops) ==
    /\ \A k \in DOMAIN Supported :
           Supported[k] # "kopia" =>
               \E i \in StartIndexesOf(ops) : ops[i] = Op("service", "start", <<Supported[k]>>)
    /\ \A app \in Applications :
           \E i \in StartIndexesOf(ops) : ops[i] = Op("application", "start", <<app>>)

\* C27: whenever the log of a restore grows, a unit has had its turn in a
\* start loop only after the apply step was issued and succeeded; the
\* services are started in startup order, never the Kopia service, and
\* every service comes before the applications; the step that
\* sets last_status to "Restore completed successfully" is the one that ends
\* the start loops, after every unit has had its turn, and it sets
\* in_progress = false and progress = 100.
C27_StartsAfterApply ==
    [][/\ rs_ops' # rs_ops =>
              /\ StartIndexesOf(rs_ops') # {} =>
                     /\ upd_pc' \in {"rs_start_services", "rs_start_apps", "rs_remove_temp"}
                     /\ rs_err' = Nil
              /\ \A i \in StartIndexesOf(rs_ops') :
                     /\ \E j \in 1..(i - 1) : rs_ops'[j].tool = "rsync"
                     /\ rs_ops'[i].target # <<"kopia">>
              /\ \A i, j \in StartIndexesOf(rs_ops') :
                     /\ (rs_ops'[i].tool = "service" /\ rs_ops'[j].tool = "application") => i < j
                     /\ (rs_ops'[i].tool = "service" /\ rs_ops'[j].tool = "service" /\ i < j) =>
                            StartupPosition(rs_ops'[i].target[1])
                                < StartupPosition(rs_ops'[j].target[1])
       /\ (/\ State'.LastStatus = Status("Restore completed successfully", Nil)
           /\ State.LastStatus # State'.LastStatus) =>
              /\ upd_pc = "rs_start_apps"
              /\ upd_pc' = "rs_remove_temp"
              /\ rs_err' = Nil
              /\ AllStarted(rs_ops')
              /\ ~State'.InProgress
              /\ State'.Progress = 100
       /\ (upd_pc \in {"rs_start_services", "rs_start_apps"} /\ upd_pc' = "rs_remove_temp") =>
              State'.LastStatus = Status("Restore completed successfully", Nil)]_vars

\* a restore marked complete after it started the first service, the second
\* service and the application, in that order
C27_Witness ==
    /\ upd_pc = "rs_remove_temp"
    /\ State.LastStatus = Status("Restore completed successfully", Nil)
    /\ State.Progress = 100
    /\ ~State.InProgress
    /\ \E i, j, k \in StartIndexesOf(rs_ops) :
           /\ i < j /\ j < k
           /\ rs_ops[i] = Op("service", "start", <<"svc1">>)
           /\ rs_ops[j] = Op("service", "start", <<"svc2">>)
           /\ rs_ops[k] = Op("application", "start", <<"app1">>)

\* the log ops has the turn of every application and of every service but
\* Kopia in the stop loops
AllStopped(ops) ==
    /\ \A app \in Applications :
           \E i \in DOMAIN ops : ops[i] = Op("application", "stop", <<app>>)
    /\ \A k \in DOMAIN Supported :
           Supported[k] # "kopia" =>
               \E i \in DOMAIN ops : ops[i] = Op("service", "stop", <<Supported[k]>>)

\* the step taken is one of the running restore
RestoreActs == upd_pc # "idle" /\ (upd_pc' # upd_pc \/ rs_ops' # rs_ops)

\* C28: whatever the load, Stop or Start of a unit comes to, a turn of a stop
\* or start loop goes on to the next unit or to what follows the loop: it
\* does not return, settles no error and writes nothing to the state; the
\* safety snapshot is asked for once every unit had its turn in the stop
\* loops, and the restore is marked complete once every unit had its turn in
\* the start loops.  A restore that has started its cycle returns an error
\* only from the safety-snapshot, mountpoint, staging (the directory or the
\* fetch) and apply steps.
C28_UnitFailuresIgnored ==
    [][/\ (upd_pc \in {"rs_stop_apps", "rs_stop_services"} /\ RestoreActs) =>
              /\ upd_pc' \in {"rs_stop_apps", "rs_stop_services", "rs_safety_snapshot"}
              /\ rs_err' = Nil
              /\ Len(rs_ops') > Len(rs_ops)
              /\ upd_pc' # "rs_safety_snapshot" => State' = State
              /\ upd_pc' = "rs_safety_snapshot" =>
                     /\ AllStopped(rs_ops')
                     /\ IsSafetySnapshot(rs_ops'[Len(rs_ops')])
                     /\ State'.InProgress = State.InProgress
       /\ (upd_pc \in {"rs_start_services", "rs_start_apps"} /\ RestoreActs) =>
              /\ upd_pc' \in {"rs_start_services", "rs_start_apps", "rs_remove_temp"}
              /\ rs_err' = Nil
              /\ Len(rs_ops') > Len(rs_ops)
              /\ upd_pc' # "rs_remove_temp" => State' = State
              /\ upd_pc' = "rs_remove_temp" => AllStarted(rs_ops')
       /\ (upd_pc \notin {"idle", "rs_find_pool"} /\ returned'.restore = "error") =>
              upd_pc \in {"rs_safety_snapshot", "rs_mountpoint", "rs_mkdir", "rs_remove_temp"}
       /\ (upd_pc \in {"rs_staging", "rs_apply"} /\ upd_pc' = "rs_remove_temp") => rs_err' # Nil]_vars

\* a restore has been through its stop loops and its safety snapshot and
\* waits for the fetch; the state is the same whatever the Stop of each unit
\* came to
C28_Witness ==
    /\ upd_pc = "rs_staging"
    /\ AllStopped(rs_ops)
    /\ rs_safety
    /\ State.InProgress
    /\ State.Progress = 50

\* C29: while the restore an Update triggered runs, the configuration in
\* memory and the saved one are still those the Update found; when the
\* restore fails, Update returns its error and leaves both as they were, with
\* repository_connected untouched.
C29_FailedRestoreKeepsConfig ==
    [][/\ upd_pc' # "idle" =>
              /\ Config' = upd_old'
              /\ saved' = upd_old'
              /\ upd_pc # "idle" => (Config' = Config /\ upd_old' = upd_old)
       /\ (returned'.by = "Update" /\ returned'.restore = "error") =>
              /\ returned'.err # Nil
              /\ Config' = Config
              /\ saved' = Config
              /\ State'.RepositoryConnected = State.RepositoryConnected]_vars

\* Update has returned the error of a failed fetch; the configuration is the
\* one with a backup interval, which no request with a restore trigger carries
C29_Witness ==
    /\ returned.by = "Update"
    /\ returned.restore = "error"
    /\ returned.id = "k123"
    /\ returned.err = Wrap("failed to restore snapshot", ExitError)
    /\ Config = CfgInterval
    /\ saved = CfgInterval

\* how often the log ops has the operation verb of tool
Issued(ops, tool, verb) ==
    Cardinality({i \in DOMAIN ops : ops[i].tool = tool /\ ops[i].verb = verb})

\* C30: a backup cycle issues the creation of its snapshot, the Kopia
\* snapshot, the expiry and the destroy of its snapshot at most once each; a
\* restore issues the creation of its safety snapshot, the fetch and the
\* apply step at most once each.
C30_NoRetry ==
    /\ Issued(bk_ops, "zfs", "snapshot") <= 1
    /\ Issued(bk_ops, "kopia", "snapshot create") <= 1
    /\ Issued(bk_ops, "kopia", "snapshot expire") <= 1
    /\ Issued(bk_ops, "zfs", "destroy") <= 1
    /\ Issued(rs_ops, "zfs", "snapshot") <= 1
    /\ Issued(rs_ops, "kopia", "snapshot restore") <= 1
    /\ Issued(rs_ops, "rsync", "-a --delete") <= 1

\* performBackup, once called, goes on: each of its blocking calls returns
BackupRuns ==
    \/ performBackupEntry
    \/ \E ok \in BOOLEAN :
        \/ BackupFindPool(ok)
        \/ BackupCreateSnapshot(ok)
        \/ BackupSnapshotPath(ok)
        \/ BackupKopiaCreate(ok)
        \/ BackupRetention(ok)
        \/ BackupDestroy(ok)
    \/ BackupDeferredDestroy

\* PerformRestore, once called, goes on: each of its blocking calls returns
RestoreRuns ==
    \/ \E ok \in BOOLEAN :
        \/ RestoreFindPool(ok)
        \/ RestoreSafetySnapshot(ok)
        \/ RestoreMountpoint(ok)
        \/ RestoreMkdir(ok)
        \/ RestoreStaging(ok)
        \/ RestoreApply(ok)
    \/ \E outcome \in UnitOutcomes :
        \/ \E app \in Applications : RestoreStopApp(app, outcome)
        \/ RestoreStopService(outcome)
        \/ RestoreStartService(outcome)
        \/ \E app \in Applications : RestoreStartApp(app, outcome)
    \/ RestoreRemoveTemp

\* the service with maintenance windows configured, when every external call
\* returns: a function that was called is not left waiting for ever
InitReturning == Init /\ windows

SpecReturning ==
    InitReturning /\ [][Next]_vars /\ WF_vars(BackupRuns) /\ WF_vars(RestoreRuns)

\* C31: when every external call returns, no backup or restore cycle that has
\* set in_progress to true stays in flight for ever: it comes to the step
\* that ends it; that step sets
\* in_progress to false, on success and on every failure, and from there to
\* its return the function does not set in_progress again.
C31_CycleEnds ==
    /\ []<>~BackupInFlight
    /\ []<>~RestoreInFlight
    /\ [][/\ (BackupInFlight /\ ~BackupInFlight') => ~State'.InProgress
          /\ (RestoreInFlight /\ ~RestoreInFlight') => ~State'.InProgress
          /\ (bk_pc = "defer_destroy" /\ bk_pc' # bk_pc) =>
                 State'.InProgress = State.InProgress
          /\ (upd_pc = "rs_remove_temp" /\ upd_pc' # upd_pc) =>
                 State'.InProgress = State.InProgress]_vars

\* a backup cycle ended by the failure of its Kopia snapshot has set
\* in_progress to false and runs its deferred cleanup
C31_Witness ==
    /\ bk_pc = "defer_destroy"
    /\ bk_ret = ExitError
    /\ ~State.InProgress
    /\ State.LastStatus = Status("Failed to create Kopia snapshot: ", ExitError)

\* C32: when the configure call last made returned an error,
\* repository_connected is false, both in the state it returned with and in
\* the state as it stands; so repository_connected is true only after a
\* configure that returned nil.
C32_ErrorDisconnects ==
    (call.fn = "configure" /\ call.out.err # Nil) =>
        /\ ~call.out.st.RepositoryConnected
        /\ ~State.RepositoryConnected

\* the operations the step taken adds to the log, from ops to ops2, leaving
\* out the lookup of the pool that comes before a cycle starts
IssuedInCycle(ops, ops2) ==
    {ops2[i] : i \in {j \in (Len(ops) + 1)..Len(ops2) : ops2[j].tool # "zpool"}}

\* C33: every operation a backup or restore cycle issues is issued with
\* in_progress true, and the step in which a cycle sets in_progress to false
\* issues nothing.
C33_NothingPendingAtRest ==
    [][/\ IssuedInCycle(bk_ops, bk_ops') # {} => State'.InProgress
       /\ IssuedInCycle(rs_ops, rs_ops') # {} => State'.InProgress
       /\ (State.InProgress /\ ~State'.InProgress) =>
              /\ IssuedInCycle(bk_ops, bk_ops') = {}
              /\ IssuedInCycle(rs_ops, rs_ops') = {}]_vars

====
